---- MODULE Spec2Model ----
(***************************************************************************)
(* Lexical path decomposition of file-cpp (src/file-cpp/file.h):           *)
(* util::utf8 and util::wide root_name, relative_path, parent_path,        *)
(* filename, stem, extension and the find_* boundary functions.            *)
(*                                                                         *)
(* A path is a span [first, last) of code units inside a storage buffer.   *)
(* Positions are 0-based offsets into the buffer, as the pointers of the   *)
(* source are; a code unit is its unsigned integer value.                  *)
(* Every function returns, beside its result, the set of offsets it read,  *)
(* following the short-circuit order of the source.                        *)
(***************************************************************************)
EXTENDS Integers, Sequences, FiniteSets, TLC

VARIABLES
    buf,     \* the storage the caller owns: a sequence of code units
    width,   \* bits of a code unit: 8 (util::utf8) or 16 (util::wide)
    first,   \* the input span is [first, last) of buf
    last,
    op,      \* the function called last on the span ("input": none yet)
    ret,     \* what the call returned: a view [start, end), a position or a boolean
    reads,   \* the offsets of buf the call read
    steps    \* how many times a returned view was passed back in as the span

vars == <<buf, width, first, last, op, ret, reads, steps>>

---------------------------------------------------------------------------
(* Bounds of the model *)

\* longest path enumerated exhaustively over Alphabet
MaxLen == 4
\* how many times a returned view is re-parsed
MaxReparse == 1

---------------------------------------------------------------------------
(* Code units named in the source *)

BACKSLASH == 92
SLASH == 47
QUESTION == 63
DOT == 46
COLON == 58
LOWER_A == 97
UPPER_A == 65
NarrowBits == 8
WideBits == 16

\* a letter ('c') and a unit that is neither letter, slash, dot, colon nor '?' ('1')
LetterC == LOWER_A + 2
Digit1 == SLASH + 2

\* the number of values of a code unit of n bits
Pow2(n) == 2 ^ n

---------------------------------------------------------------------------
(* Reading the storage *)

\* the code unit at offset i. The source never reads outside the span it is
\* given (NoReadOutsideSpan below); an offset outside the storage has no
\* defined unit and is given the value 0 here, its offset is recorded.
Unit(s, i) == IF i >= 0 /\ i < Len(s) THEN s[i + 1] ELSE 0

\* a result together with the offsets read to compute it
Rd(v, r) == [ret |-> v, reads |-> r]

\* an expression that reads nothing
Pure(b) == Rd(b, {})

\* a && b and a || b: b is evaluated only when a does not decide
AndThen(a, b) == IF a.ret THEN Rd(b.ret, a.reads \cup b.reads) ELSE a
OrElse(a, b) == IF a.ret THEN a ELSE Rd(b.ret, a.reads \cup b.reads)

\* statement b evaluated after statement a: the result of b, the reads of both
After(a, b) == Rd(b.ret, a.reads \cup b.reads)

\* r, having also read offset i
Also(r, i) == Rd(r.ret, r.reads \cup {i})

\* const auto x = value; body(x)
With(value, body(_)) == body(value)

\* if (c) return v; rest
IfReturn(c, v, rest) == IF c.ret THEN Rd(v, c.reads) ELSE After(c, rest)

\* if (c) return r; rest     where r is itself computed by reading
IfReturnCall(c, r, rest) == IF c.ret THEN After(c, r) ELSE After(c, rest)

\* s[i] == c
EqAt(s, i, c) == Rd(Unit(s, i) = c, {i})

\* the units of [a, b)
Content(s, a, b) == SubSeq(s, a + 1, b)

---------------------------------------------------------------------------
(* Case folding and drive letters *)

\* c | 32 on the bits of c
BitOr32(c) == IF (c \div (LOWER_A - UPPER_A)) % 2 = 1 THEN c ELSE c + (LOWER_A - UPPER_A)

ascii_lowercase(c, w) == BitOr32(c) % Pow2(w)

\* c & ~32, truncated to the width
ascii_uppercase(c, w) ==
    (IF (c \div (LOWER_A - UPPER_A)) % 2 = 1 THEN c - (LOWER_A - UPPER_A) ELSE c) % Pow2(w)

\* mutant: the difference compared as a signed int, the unsigned cast dropped
is_drive_prefix_signed(s, w, f) ==
    AndThen(Rd((ascii_lowercase(Unit(s, f), w) - LOWER_A) < 26, {f}),
            EqAt(s, f + 1, COLON))

is_drive_prefix(s, w, f) ==
    AndThen(Rd(((ascii_lowercase(Unit(s, f), w) - LOWER_A) % Pow2(w)) < 26, {f}),
            EqAt(s, f + 1, COLON))

\* mutant: the length of the span is not checked
has_drive_letter_prefix_unchecked(s, w, f, l) == is_drive_prefix(s, w, f)

has_drive_letter_prefix(s, w, f, l) ==
    AndThen(Pure(l - f >= 2), is_drive_prefix(s, w, f))

is_slash(c) == c = BACKSLASH \/ c = SLASH

IsSlashAt(s, i) == Rd(is_slash(Unit(s, i)), {i})
NotSlashAt(s, i) == Rd(~is_slash(Unit(s, i)), {i})

---------------------------------------------------------------------------
(* std algorithms over [f, l) *)

\* mutant: only '\' ends the server name
find_if_backslash_only(s, f, l) ==
    LET scan[i \in f..l] ==
            IF i = l THEN Rd(l, {})
            ELSE IF Unit(s, i) = BACKSLASH THEN Rd(i, {i})
            ELSE Also(scan[i + 1], i)
    IN  scan[f]

\* std::find_if(f, l, is_slash): the first slash, or l
find_if_slash(s, f, l) ==
    LET scan[i \in f..l] ==
            IF i = l THEN Rd(l, {})
            ELSE IF is_slash(Unit(s, i)) THEN Rd(i, {i})
            ELSE Also(scan[i + 1], i)
    IN  scan[f]

\* std::find_if_not(f, l, is_slash): the first unit that is no slash, or l
find_if_not_slash(s, f, l) ==
    LET scan[i \in f..l] ==
            IF i = l THEN Rd(l, {})
            ELSE IF ~is_slash(Unit(s, i)) THEN Rd(i, {i})
            ELSE Also(scan[i + 1], i)
    IN  scan[f]

\* std::find(f, l, c): the first unit equal to c, or l
find(s, f, l, c) ==
    LET scan[i \in f..l] ==
            IF i = l THEN Rd(l, {})
            ELSE IF Unit(s, i) = c THEN Rd(i, {i})
            ELSE Also(scan[i + 1], i)
    IN  scan[f]

---------------------------------------------------------------------------
(* Root name and relative path *)

find_root_name_end(s, w, f, l) ==
    IfReturn(Pure(l - f < 2), f,
    IfReturn(has_drive_letter_prefix(s, w, f, l), f + 2,
    IfReturn(NotSlashAt(s, f), f,
    IfReturn(AndThen(Pure(l - f >= 4),
             AndThen(IsSlashAt(s, f + 3),
             AndThen(OrElse(Pure(l - f = 4), NotSlashAt(s, f + 4)),
                     OrElse(AndThen(IsSlashAt(s, f + 1),
                                    OrElse(EqAt(s, f + 2, QUESTION), EqAt(s, f + 2, DOT))),
                            AndThen(EqAt(s, f + 1, QUESTION), EqAt(s, f + 2, QUESTION)))))),
             f + 3,
    IfReturnCall(AndThen(Pure(l - f >= 3),
                 AndThen(IsSlashAt(s, f + 1), NotSlashAt(s, f + 2))),
                 find_if_slash(s, f + 3, l),
    Rd(f, {}))))))

\* a view [start, end) with the offsets read to compute it
View(a, b, r) == [start |-> a, end |-> b, reads |-> r]

root_name(s, w, f, l) ==
    With(find_root_name_end(s, w, f, l), LAMBDA e :
         View(f, e.ret, e.reads))

\* mutant: one separator is skipped after the root-name, not the whole run
find_relative_path_one_separator(s, w, f, l) ==
    With(find_root_name_end(s, w, f, l), LAMBDA e :
         IF e.ret < l
         THEN IF is_slash(Unit(s, e.ret)) THEN Also(Rd(e.ret + 1, e.reads), e.ret)
              ELSE Also(e, e.ret)
         ELSE e)

find_relative_path(s, w, f, l) ==
    With(find_root_name_end(s, w, f, l), LAMBDA e :
         After(e, find_if_not_slash(s, e.ret, l)))

relative_path(s, w, f, l) ==
    With(find_relative_path(s, w, f, l), LAMBDA r :
         View(r.ret, l, r.reads))

---------------------------------------------------------------------------
(* Parent path and filename *)

\* while (rel != tail && !is_slash(tail[-1])) --tail;
retreat_over_filename(s, rel, tail) ==
    LET back[t \in rel..tail] ==
            IF t = rel THEN Rd(t, {})
            ELSE IF ~is_slash(Unit(s, t - 1)) THEN Also(back[t - 1], t - 1)
            ELSE Rd(t, {t - 1})
    IN  back[tail]

\* while (rel != tail && is_slash(tail[-1])) --tail;
retreat_over_slashes(s, rel, tail) ==
    LET back[t \in rel..tail] ==
            IF t = rel THEN Rd(t, {})
            ELSE IF is_slash(Unit(s, t - 1)) THEN Also(back[t - 1], t - 1)
            ELSE Rd(t, {t - 1})
    IN  back[tail]

\* mutant: the trailing separators are removed before the filename
parent_path_separators_first(s, w, f, l) ==
    With(find_relative_path(s, w, f, l), LAMBDA rel :
    With(After(rel, retreat_over_slashes(s, rel.ret, l)), LAMBDA t1 :
    With(After(t1, retreat_over_filename(s, rel.ret, t1.ret)), LAMBDA t2 :
         View(f, t2.ret, t2.reads))))

\* mutant: the root-name and root-directory are not protected
parent_path_ignoring_root(s, w, f, l) ==
    With(Rd(f, {}), LAMBDA rel :
    With(After(rel, retreat_over_filename(s, rel.ret, l)), LAMBDA t1 :
    With(After(t1, retreat_over_slashes(s, rel.ret, t1.ret)), LAMBDA t2 :
         View(f, t2.ret, t2.reads))))

\* mutant: the retreat stops at the root-name end, the root-directory is not protected
parent_path_from_root_name_end(s, w, f, l) ==
    With(find_root_name_end(s, w, f, l), LAMBDA rel :
    With(After(rel, retreat_over_filename(s, rel.ret, l)), LAMBDA t1 :
    With(After(t1, retreat_over_slashes(s, rel.ret, t1.ret)), LAMBDA t2 :
         View(f, t2.ret, t2.reads))))

\* mutant: one trailing separator is removed, not the whole run
parent_path_one_separator(s, w, f, l) ==
    With(find_relative_path(s, w, f, l), LAMBDA rel :
    With(After(rel, retreat_over_filename(s, rel.ret, l)), LAMBDA t1 :
    With(After(t1, IF t1.ret = rel.ret THEN Rd(t1.ret, {})
                   ELSE IF is_slash(Unit(s, t1.ret - 1)) THEN Rd(t1.ret - 1, {t1.ret - 1})
                   ELSE Rd(t1.ret, {t1.ret - 1})), LAMBDA t2 :
         View(f, t2.ret, t2.reads))))

parent_path(s, w, f, l) ==
    With(find_relative_path(s, w, f, l), LAMBDA rel :
    With(After(rel, retreat_over_filename(s, rel.ret, l)), LAMBDA t1 :
    With(After(t1, retreat_over_slashes(s, rel.ret, t1.ret)), LAMBDA t2 :
         View(f, t2.ret, t2.reads))))

find_filename(s, w, f, l) ==
    With(find_relative_path(s, w, f, l), LAMBDA rel :
         After(rel, retreat_over_filename(s, rel.ret, l)))

filename(s, w, f, l) ==
    With(find_filename(s, w, f, l), LAMBDA fn :
         View(fn.ret, l, fn.reads))

---------------------------------------------------------------------------
(* Stem and extension *)

\* mutant: a dot in first position starts an extension too
find_extension_leading_dot(s, fname, additional) ==
    LET \* while (filename <= --extension) if (*extension == '.') return extension;
        scan[e \in fname..additional] ==
            IF Unit(s, e) = DOT THEN Rd(e, {e})
            ELSE IF e = fname THEN Rd(additional, {e})
            ELSE Also(scan[e - 1], e)
    IN
    IfReturn(Pure(fname = additional), additional,
    IfReturn(Pure(fname = additional - 1), additional,
    IfReturnCall(EqAt(s, additional - 1, DOT),
                 IfReturn(AndThen(Pure(fname = additional - 2), EqAt(s, additional - 2, DOT)),
                          additional,
                          Rd(additional - 1, {})),
    scan[additional - 2])))

\* mutant: no special case for the name ".."
find_extension_without_dotdot(s, fname, additional) ==
    LET scan[e \in fname..additional] ==
            IF e = fname THEN Rd(additional, {})
            ELSE IF Unit(s, e) = DOT THEN Rd(e, {e})
            ELSE Also(scan[e - 1], e)
    IN
    IfReturn(Pure(fname = additional), additional,
    IfReturn(Pure(fname = additional - 1), additional,
    IfReturn(EqAt(s, additional - 1, DOT), additional - 1,
    scan[additional - 2])))

\* [fname, additional) is a filename already cut at its alternate data stream
find_extension(s, fname, additional) ==
    LET \* while (filename != --extension) if (*extension == '.') return extension;
        \* return additional;         scan[e]: --extension has just given e
        scan[e \in fname..additional] ==
            IF e = fname THEN Rd(additional, {})
            ELSE IF Unit(s, e) = DOT THEN Rd(e, {e})
            ELSE Also(scan[e - 1], e)
    IN
    IfReturn(Pure(fname = additional), additional,
    IfReturn(Pure(fname = additional - 1), additional,
    IfReturnCall(EqAt(s, additional - 1, DOT),
                 IfReturn(AndThen(Pure(fname = additional - 2), EqAt(s, additional - 2, DOT)),
                          additional,
                          Rd(additional - 1, {})),
    scan[additional - 2])))

\* mutant: the alternate data stream is not cut off
stem_with_stream(s, w, f, l) ==
    With(find_filename(s, w, f, l), LAMBDA fn :
    With(After(fn, find_extension(s, fn.ret, l)), LAMBDA exts :
         View(fn.ret, exts.ret, exts.reads)))

stem(s, w, f, l) ==
    With(find_filename(s, w, f, l), LAMBDA fn :
    With(After(fn, find(s, fn.ret, l, COLON)), LAMBDA ads :
    With(After(ads, find_extension(s, fn.ret, ads.ret)), LAMBDA exts :
         View(fn.ret, exts.ret, exts.reads))))

\* mutant: the alternate data stream is not cut off
extension_with_stream(s, w, f, l) ==
    With(find_filename(s, w, f, l), LAMBDA fn :
    With(After(fn, find_extension(s, fn.ret, l)), LAMBDA exts :
         View(exts.ret, l, exts.reads)))

extension(s, w, f, l) ==
    With(find_filename(s, w, f, l), LAMBDA fn :
    With(After(fn, find(s, fn.ret, l, COLON)), LAMBDA additional :
    With(After(additional, find_extension(s, fn.ret, additional.ret)), LAMBDA exts :
         View(exts.ret, additional.ret, exts.reads))))

---------------------------------------------------------------------------
(* The paths the callers pass in *)

Alphabet == {BACKSLASH, SLASH, QUESTION, DOT, COLON, LetterC, Digit1}

Widths == {NarrowBits, WideBits}

\* every sequence over Alphabet of length at most MaxLen
Paths == UNION {[1..n -> Alphabet] : n \in 0..MaxLen}

\* the paths of the worked scenarios, as ASCII codes
Examples == {
    <<67, 58, 92, 102, 111, 111, 92, 98, 97, 114>>,      \* C:\foo\bar
    <<67, 58, 92, 102, 111, 111>>,                        \* C:\foo
    <<92, 92, 115, 101, 114, 118, 101, 114, 92, 115, 104, 97, 114, 101, 92, 120>>,
                                                          \* \\server\share\x
    <<92, 92, 63, 92, 120>>,                              \* \\?\x
    <<92, 92, 46, 92, 120>>,                              \* \\.\x
    <<92, 63, 63, 92, 120>>,                              \* \??\x
    <<92, 92, 63, 92, 92, 120>>,                          \* \\?\\x
    <<92, 63, 63, 92, 92, 120>>,                          \* \??\\x
    <<120, 46>>,                                          \* x.
    <<99, 58, 47, 99, 47, 99, 46, 49, 58, 49>>,           \* c:/c/c.1:1
    <<97, 114, 99, 104, 105, 118, 101, 46, 116, 97, 114, 46, 103, 122>>,
                                                          \* archive.tar.gz
    <<46, 98, 97, 115, 104, 114, 99>>,                    \* .bashrc
    <<47, 99, 97, 116, 47, 100, 111, 103, 47, 92, 47, 47, 92>>,
                                                          \* /cat/dog/\//\
    <<47, 99, 97, 116, 47, 100, 111, 103, 47>>,           \* /cat/dog/
    <<47, 99, 97, 116, 47, 100, 111, 103>>,               \* /cat/dog
    <<110, 97, 109, 101, 58, 115, 116, 114, 101, 97, 109>> \* name:stream
    }

\* /cat/dog
CatDog == <<47, 99, 97, 116, 47, 100, 111, 103>>

\* /cat/dog followed by every mix of '\' and '/' of 1 to MaxLen units
TrailingSlashPaths ==
    {CatDog \o t : t \in UNION {[1..n -> {BACKSLASH, SLASH}] : n \in 1..MaxLen}}

Init ==
    /\ buf \in Paths \cup Examples \cup TrailingSlashPaths
    /\ width \in Widths
    /\ first = 0
    /\ last = Len(buf)
    /\ op = "input"
    /\ ret = "none"
    /\ reads = {}
    /\ steps = 0

\* the span-returning functions
ViewFunctions == {"root_name", "relative_path", "parent_path", "filename", "stem", "extension"}

\* name(s[f, l)) for a span-returning function
Apply(name, s, w, f, l) ==
    CASE name = "root_name" -> root_name(s, w, f, l)
      [] name = "relative_path" -> relative_path(s, w, f, l)
      [] name = "parent_path" -> parent_path(s, w, f, l)
      [] name = "filename" -> filename(s, w, f, l)
      [] name = "stem" -> stem(s, w, f, l)
      [] name = "extension" -> extension(s, w, f, l)

\* A caller holding the span [first, last) calls one function on it. The
\* functions are pure: a call leaves the span as it was, so the calls on one
\* span are independent and each is taken from the state holding the span.
Call(name, value, rd) ==
    /\ op = "input"
    /\ op' = name
    /\ ret' = value
    /\ reads' = rd
    /\ UNCHANGED <<buf, width, first, last, steps>>

\* a span-returning function hands back the view [start, end)
CallView(name, v) == Call(name, [start |-> v.start, end |-> v.end], v.reads)

\* a find_* function hands back a position, has_drive_letter_prefix a boolean
CallFind(name, r) == Call(name, r.ret, r.reads)

RootName == CallView("root_name", root_name(buf, width, first, last))
RelativePath == CallView("relative_path", relative_path(buf, width, first, last))
ParentPath == CallView("parent_path", parent_path(buf, width, first, last))
Filename == CallView("filename", filename(buf, width, first, last))
Stem == CallView("stem", stem(buf, width, first, last))
Extension == CallView("extension", extension(buf, width, first, last))

FindRootNameEnd == CallFind("find_root_name_end", find_root_name_end(buf, width, first, last))
FindRelativePath == CallFind("find_relative_path", find_relative_path(buf, width, first, last))
FindFilename == CallFind("find_filename", find_filename(buf, width, first, last))
FindExtension == CallFind("find_extension", find_extension(buf, first, last))
HasDriveLetterPrefix ==
    CallFind("has_drive_letter_prefix", has_drive_letter_prefix(buf, width, first, last))

\* the call hands back the view v and has read v.reads
Returns(v) ==
    /\ ret' = [start |-> v.start, end |-> v.end]
    /\ reads' = v.reads

\* The caller passes the view a function returned back to the same function:
\* the view becomes the span.
Reparse ==
    /\ op \in ViewFunctions
    /\ steps < MaxReparse
    /\ first' = ret.start
    /\ last' = ret.end
    /\ Returns(Apply(op, buf, width, ret.start, ret.end))
    /\ steps' = steps + 1
    /\ UNCHANGED <<buf, width, op>>

Next ==
    \/ RootName
    \/ RelativePath
    \/ ParentPath
    \/ Filename
    \/ Stem
    \/ Extension
    \/ FindRootNameEnd
    \/ FindRelativePath
    \/ FindFilename
    \/ FindExtension
    \/ HasDriveLetterPrefix
    \/ Reparse

Spec == Init /\ [][Next]_vars

\* the second unit of a two-unit span given to has_drive_letter_prefix: ':',
\* a letter, and (wide only) the unit whose low 8 bits are those of ':'
DriveSeconds(w) == {c \in {COLON, LetterC, COLON + Pow2(NarrowBits)} : c < Pow2(w)}

\* has_drive_letter_prefix over every value of the first code unit of either width
InitDrive ==
    /\ width \in Widths
    /\ buf \in {<<>>} \cup {<<a>> : a \in Alphabet}
                \cup {<<a, b>> : a \in 0..(Pow2(width) - 1), b \in DriveSeconds(width)}
    /\ first = 0
    /\ last = Len(buf)
    /\ op = "input"
    /\ ret = "none"
    /\ reads = {}
    /\ steps = 0

NextDrive == HasDriveLetterPrefix

SpecDrive == InitDrive /\ [][NextDrive]_vars

\* The caller walks up: the parent it was handed becomes the path, and it asks
\* for the parent of that. The walk is followed for as many steps as the
\* original path has units.
Ascend ==
    /\ op = "parent_path"
    /\ steps < Len(buf)
    /\ first' = ret.start
    /\ last' = ret.end
    /\ Returns(parent_path(buf, width, ret.start, ret.end))
    /\ steps' = steps + 1
    /\ UNCHANGED <<buf, width, op>>

NextParent ==
    \/ ParentPath
    \/ Ascend

\* parent_path applied again and again, starting from every path
SpecParent == Init /\ [][NextParent]_vars

---------------------------------------------------------------------------
(* Properties *)

\* every unit of [a, b) is a slash
AllSlashes(s, a, b) == \A i \in a..(b - 1) : is_slash(Unit(s, i))

\* the first ':' of [a, b), or b
FirstColon(s, a, b) ==
    IF \E i \in a..(b - 1) : Unit(s, i) = COLON
    THEN CHOOSE i \in a..(b - 1) :
            Unit(s, i) = COLON /\ \A j \in a..(i - 1) : Unit(s, j) # COLON
    ELSE b

\* C1: a path is its root-name, then a run of slashes only, then its
\* relative-path; the relative-path never begins with a slash and is empty
\* when every unit after the root-name is a slash.
RootSlashesRelativePartition ==
    op = "relative_path" =>
        LET rn == root_name(buf, width, first, last)
        IN  /\ rn.start = first
            /\ rn.end <= ret.start
            /\ ret.start <= ret.end
            /\ ret.end = last
            /\ AllSlashes(buf, rn.end, ret.start)
            /\ Content(buf, rn.start, rn.end) \o Content(buf, rn.end, ret.start)
                   \o Content(buf, ret.start, ret.end) = Content(buf, first, last)
            /\ (ret.start < ret.end => ~is_slash(Unit(buf, ret.start)))
            /\ (AllSlashes(buf, rn.end, last) => ret.start = ret.end)

\* C1 witness: a root-name, a root-directory and a relative-path, all non-empty
RootSlashesRelativeSeen ==
    /\ op = "relative_path"
    /\ first < root_name(buf, width, first, last).end
    /\ root_name(buf, width, first, last).end < ret.start
    /\ ret.start < ret.end

\* C2: parent_path is a prefix and filename a suffix of the path, only slashes
\* lie between them, and the filename is empty when the path ends in a slash.
ParentSlashesFilenamePartition ==
    op = "parent_path" =>
        LET fn == filename(buf, width, first, last)
        IN  /\ ret.start = first
            /\ ret.end <= fn.start
            /\ fn.start <= fn.end
            /\ fn.end = last
            /\ AllSlashes(buf, ret.end, fn.start)
            /\ Content(buf, ret.start, ret.end) \o Content(buf, ret.end, fn.start)
                   \o Content(buf, fn.start, fn.end) = Content(buf, first, last)
            /\ (first < last /\ is_slash(Unit(buf, last - 1)) => fn.start = fn.end)

\* C2 witness: a parent, separators and a filename, all non-empty
ParentSlashesFilenameSeen ==
    /\ op = "parent_path"
    /\ ret.start < ret.end
    /\ ret.end < filename(buf, width, first, last).start
    /\ filename(buf, width, first, last).start < last

\* C3: stem followed by extension is the filename cut at its first ':': the
\* stem starts where the filename starts, the extension starts where the stem
\* ends and ends at the first ':' of the filename or at the end of the path.
StemExtensionPartition ==
    op = "stem" =>
        LET fn == filename(buf, width, first, last)
            ex == extension(buf, width, first, last)
            cut == FirstColon(buf, fn.start, last)
        IN  /\ ret.start = fn.start
            /\ ret.start <= ret.end
            /\ ex.start = ret.end
            /\ ex.start <= ex.end
            /\ ex.end = cut
            /\ Content(buf, ret.start, ret.end) \o Content(buf, ex.start, ex.end)
                   = Content(buf, fn.start, cut)

\* C3 witness: a stem, an extension and an alternate data stream after them
StemExtensionSeen ==
    /\ op = "stem"
    /\ ret.start < ret.end
    /\ ret.end < extension(buf, width, first, last).end
    /\ extension(buf, width, first, last).end < last

\* an ASCII letter, 'A'..'Z' or 'a'..'z'
IsAsciiLetter(c) == c \in UPPER_A..(UPPER_A + 25) \cup LOWER_A..(LOWER_A + 25)

\* [a, b) begins with a letter followed by ':'
DrivePrefixAt(s, a, b) ==
    b - a >= 2 /\ IsAsciiLetter(Unit(s, a)) /\ Unit(s, a + 1) = COLON

\* the view the call returned has the units of the span it was given
ReturnedSpanItself == Content(buf, ret.start, ret.end) = Content(buf, first, last)

\* C4 as stated: re-parsing a returned view through the same function is a
\* no-op, f(f(p)) == f(p), for each of the six span-returning functions.
ReparseIsNoOp ==
    (op \in ViewFunctions /\ steps >= 1) => ReturnedSpanItself

\* C4 amended: f(f(p)) == f(p) holds for root_name unless root_name(p) is
\* slash,'?','?'; for relative_path and filename unless the view begins with a
\* drive-letter prefix; for parent_path only when parent_path(p) has an empty
\* relative-path; for stem only when stem(p) has no extension of its own; for
\* extension only when extension(p) is empty. The re-parsed view always lies
\* inside the view.
ReparseNoOpExactlyWhen ==
    (op \in ViewFunctions /\ steps >= 1) =>
        /\ first <= ret.start /\ ret.start <= ret.end /\ ret.end <= last
        /\ op = "root_name" =>
              (ReturnedSpanItself <=>
                  ~(/\ last - first = 3
                    /\ is_slash(Unit(buf, first))
                    /\ Unit(buf, first + 1) = QUESTION
                    /\ Unit(buf, first + 2) = QUESTION))
        /\ op \in {"relative_path", "filename"} =>
              (ReturnedSpanItself <=> ~DrivePrefixAt(buf, first, last))
        /\ op = "parent_path" =>
              (ReturnedSpanItself <=> find_relative_path(buf, width, first, last).ret = last)
        /\ op = "stem" =>
              (ReturnedSpanItself <=> find_extension(buf, first, last).ret = last)
        /\ op = "extension" =>
              (ReturnedSpanItself <=> first = last)

\* C4 witness: an extension ".x" was re-parsed and came back empty
ReparseShrinksSeen ==
    /\ op = "extension"
    /\ steps = 1
    /\ last - first >= 2
    /\ ret.start = ret.end

\* the view overlaps the alternate data stream [c, last) of the filename
IncludesStream(c) == \E i \in ret.start..(ret.end - 1) : i >= c

\* C5 as stated: when the filename contains a ':', no view returned by any
\* of the six functions includes that ':' or a unit of the filename after it.
StreamNeverReturned ==
    op \in ViewFunctions =>
        LET c == FirstColon(buf, find_filename(buf, width, first, last).ret, last)
        IN  c < last => ~IncludesStream(c)

\* C5 amended: when the filename contains a ':', the views of root_name,
\* parent_path, stem and extension include neither that ':' nor a unit after
\* it, while filename and relative_path run to the end of the path and include
\* the ':' and everything after it.
StreamOnlyInFilenameAndRelativePath ==
    op \in ViewFunctions =>
        LET c == FirstColon(buf, find_filename(buf, width, first, last).ret, last)
        IN  c < last =>
              /\ op \in {"root_name", "parent_path", "stem", "extension"} => ~IncludesStream(c)
              /\ op \in {"filename", "relative_path"} => ret.start <= c /\ ret.end = last

\* C5 witness: a non-empty extension returned from a filename with a stream
StreamCutSeen ==
    /\ op = "extension"
    /\ ret.start < ret.end
    /\ FirstColon(buf, find_filename(buf, width, first, last).ret, last) < last - 1

\* C6: every returned view is a sub-range of the input span, and the
\* boundaries are ordered: first <= root-name end <= relative-path start <=
\* parent_path end <= filename start <= stem end == extension start <=
\* extension end <= last.
ViewsInsideSpanAndOrdered ==
    /\ op \in ViewFunctions =>
          first <= ret.start /\ ret.start <= ret.end /\ ret.end <= last
    /\ op = "find_filename" =>
          LET rne == find_root_name_end(buf, width, first, last).ret
              rel == find_relative_path(buf, width, first, last).ret
              pp == parent_path(buf, width, first, last)
              st == stem(buf, width, first, last)
              ex == extension(buf, width, first, last)
          IN  /\ first <= rne
              /\ rne <= rel
              /\ rel <= pp.end
              /\ pp.end <= ret
              /\ ret <= st.end
              /\ st.end = ex.start
              /\ ex.start <= ex.end
              /\ ex.end <= last

\* C6 witness: all boundaries distinct, as in c:/c/c.1:1
BoundariesAllDistinctSeen ==
    /\ op = "find_filename"
    /\ first < find_root_name_end(buf, width, first, last).ret
    /\ find_root_name_end(buf, width, first, last).ret
           < find_relative_path(buf, width, first, last).ret
    /\ parent_path(buf, width, first, last).end < ret
    /\ ret < stem(buf, width, first, last).end
    /\ extension(buf, width, first, last).start < extension(buf, width, first, last).end

\* C7: no call reads a code unit outside the span [first, last) it was given.
NoReadOutsideSpan ==
    reads \subseteq first..(last - 1)

\* C7 witness: find_root_name_end read first[3] of a span of exactly 4 units,
\* and did not read first[4]
ReadLastOfFourSeen ==
    /\ op = "find_root_name_end"
    /\ last - first = 4
    /\ (first + 3) \in reads
    /\ (first + 4) \notin reads

\* C8: has_drive_letter_prefix is true iff the span has at least 2 units, the
\* first is one of the 52 ASCII letters and the second is ':', for every
\* value of the first code unit of either width.
DriveLetterPrefixExact ==
    op = "has_drive_letter_prefix" =>
        /\ ret = DrivePrefixAt(buf, first, last)
        /\ Content(buf, first, last) \in {<<99, 58>>, <<67, 58>>} => ret
        /\ Content(buf, first, last) \in
               {<<49, 58>>, <<99>>, <<>>, <<64, 58>>, <<91, 58>>, <<96, 58>>, <<123, 58>>}
             => ~ret

\* C8 witness: a wide unit whose low 8 bits are those of 'c', before ':', refused
DriveLetterAliasRefusedSeen ==
    /\ op = "has_drive_letter_prefix"
    /\ width = WideBits
    /\ Content(buf, first, last) = <<LetterC + Pow2(NarrowBits), COLON>>
    /\ ret = FALSE

\* the root-name end by the six rules of the grammar, the first that matches
RootNameRule(s, f, l) ==
    LET n == l - f
        U(i) == Unit(s, f + i)
        slashes == {i \in (f + 3)..(l - 1) : is_slash(Unit(s, i))}
    IN  IF n < 2 THEN f
        ELSE IF IsAsciiLetter(U(0)) /\ U(1) = COLON THEN f + 2
        ELSE IF ~is_slash(U(0)) THEN f
        ELSE IF /\ n >= 4
                /\ is_slash(U(3))
                /\ (n = 4 \/ ~is_slash(U(4)))
                /\ \/ is_slash(U(1)) /\ U(2) = QUESTION
                   \/ is_slash(U(1)) /\ U(2) = DOT
                   \/ U(1) = QUESTION /\ U(2) = QUESTION
             THEN f + 3
        ELSE IF n >= 3 /\ is_slash(U(1)) /\ ~is_slash(U(2))
             THEN IF slashes = {} THEN l
                  ELSE CHOOSE i \in slashes : \A j \in slashes : i <= j
        ELSE f

\* C9: find_root_name_end returns the position the six-step first-match-wins
\* order gives; root_name("C:\foo\bar") is "C:" and
\* root_name("\\server\share\x") is "\\server".
RootNameEndBySixRules ==
    /\ op = "find_root_name_end" => ret = RootNameRule(buf, first, last)
    /\ op = "root_name" =>
          /\ Content(buf, first, last) = <<67, 58, 92, 102, 111, 111, 92, 98, 97, 114>>
                => Content(buf, ret.start, ret.end) = <<67, 58>>
          /\ Content(buf, first, last) = <<92, 92, 115, 101, 114, 118, 101, 114, 92,
                                           115, 104, 97, 114, 101, 92, 120>>
                => Content(buf, ret.start, ret.end) = <<92, 92, 115, 101, 114, 118, 101, 114>>

\* C9 witness: a device root-name of 3 units found in a path of more than 4
\* units, whose fifth unit is no slash
DeviceRootNameSeen ==
    /\ op = "find_root_name_end"
    /\ last - first > 4
    /\ ret = first + 3
    /\ Unit(buf, first + 1) = QUESTION

\* the positions of the dots of [a, b)
Dots(s, a, b) == {i \in a..(b - 1) : Unit(s, i) = DOT}

\* C10: find_extension returns the position of the last '.' of the range when
\* there is one, it is not the first unit and the range is not exactly "..";
\* otherwise the end of the range. A non-empty extension starts with '.' and
\* holds exactly one '.', and the stem of a non-empty range is non-empty.
ExtensionAtLastDot ==
    /\ op = "find_extension" =>
          LET dots == Dots(buf, first, last)
              lastDot == CHOOSE i \in dots : \A j \in dots : j <= i
          IN  /\ ret = IF /\ dots # {}
                          /\ lastDot # first
                          /\ ~(last - first = 2 /\ dots = {first, first + 1})
                       THEN lastDot
                       ELSE last
              /\ ret < last => Unit(buf, ret) = DOT /\ Dots(buf, ret, last) = {ret}
              /\ first < last => first < ret
    /\ op = "extension" =>
          /\ Content(buf, first, last)
                 = <<97, 114, 99, 104, 105, 118, 101, 46, 116, 97, 114, 46, 103, 122>>
                => Content(buf, ret.start, ret.end) = <<46, 103, 122>>
          /\ Content(buf, first, last) = <<120, 46>>
                => Content(buf, ret.start, ret.end) = <<46>>
          /\ Content(buf, first, last) \in {<<46, 46>>, <<46, 98, 97, 115, 104, 114, 99>>}
                => ret.start = ret.end

\* C10 witness: a range with two dots, the extension starting at the last one
LastOfTwoDotsSeen ==
    /\ op = "find_extension"
    /\ Cardinality(Dots(buf, first, last)) >= 2
    /\ first < ret
    /\ ret < last - 1

\* the start of the last component of [rel, b): just after its last slash, or rel
LastComponentStart(s, rel, b) ==
    LET seps == {i \in rel..(b - 1) : is_slash(Unit(s, i))}
    IN  IF seps = {} THEN rel
        ELSE (CHOOSE i \in seps : \A j \in seps : j <= i) + 1

\* C11: parent_path never cuts into the root-name or root-directory; it ends
\* at the relative-path start or its last unit is no slash; what it removes is
\* the final filename and the whole run of slashes before it. /cat/dog followed
\* by any mix of slashes gives /cat/dog, C:\foo\bar gives C:\foo, C:\foo gives C:\.
ParentPathKeepsRootDropsNameAndSlashes ==
    op = "parent_path" =>
        LET rel == find_relative_path(buf, width, first, last).ret
            nameStart == LastComponentStart(buf, rel, last)
        IN  /\ ret.start = first
            /\ rel <= ret.end
            /\ ret.end <= nameStart
            /\ ret.end = rel \/ ~is_slash(Unit(buf, ret.end - 1))
            /\ AllSlashes(buf, ret.end, nameStart)
            /\ (/\ last - first > Len(CatDog)
                /\ Content(buf, first, first + Len(CatDog)) = CatDog
                /\ AllSlashes(buf, first + Len(CatDog), last))
                  => Content(buf, ret.start, ret.end) = CatDog
            /\ Content(buf, first, last) = <<67, 58, 92, 102, 111, 111, 92, 98, 97, 114>>
                  => Content(buf, ret.start, ret.end) = <<67, 58, 92, 102, 111, 111>>
            /\ Content(buf, first, last) = <<67, 58, 92, 102, 111, 111>>
                  => Content(buf, ret.start, ret.end) = <<67, 58, 92>>

\* C11 witness: a filename and a run of several slashes before it were removed,
\* leaving a parent longer than the root
NameAndSlashRunDroppedSeen ==
    /\ op = "parent_path"
    /\ steps = 0
    /\ find_relative_path(buf, width, first, last).ret < ret.end
    /\ ret.end + 2 <= LastComponentStart(buf, ret.end, last)
    /\ LastComponentStart(buf, ret.end, last) < last

\* C12: walking up from a path p, with q the path of the current step:
\* parent_path(q) is strictly shorter than q exactly when relative_path(q) is
\* non-empty and equals q otherwise; root_name and find_relative_path of q and
\* of parent_path(q) are those of p; after |p| steps q is the fixed point
\* p[0, find_relative_path(p)), on which parent_path is the identity.
ParentWalkReachesRoot ==
    op = "parent_path" =>
        LET rne0 == find_root_name_end(buf, width, 0, Len(buf)).ret
            rel0 == find_relative_path(buf, width, 0, Len(buf)).ret
            relq == find_relative_path(buf, width, first, last).ret
        IN  /\ first = 0
            /\ ret.start = 0
            /\ ret.end < last <=> relq < last
            /\ ret.end = last <=> relq = last
            /\ find_root_name_end(buf, width, first, last).ret = rne0
            /\ relq = rel0
            /\ find_root_name_end(buf, width, ret.start, ret.end).ret = rne0
            /\ find_relative_path(buf, width, ret.start, ret.end).ret = rel0
            /\ steps = Len(buf) => last = rel0
            /\ last = rel0 => ret.end = last

\* C12 witness: after two steps up the walk stands on a root-name followed by
\* a root-directory, and parent_path hands the same back
ParentWalkAtRootSeen ==
    /\ op = "parent_path"
    /\ steps = 2
    /\ 0 < find_root_name_end(buf, width, 0, Len(buf)).ret
    /\ find_root_name_end(buf, width, 0, Len(buf)).ret < last
    /\ last = find_relative_path(buf, width, 0, Len(buf)).ret
    /\ last < Len(buf)
    /\ ret.end = last

====
